---- MODULE Spec2Model ----
(***************************************************************************)
(* A model of flotilla's node orchestration layer (server.go): NewDB,      *)
(* newRaft, Command, dispatchToLeader, Rsync, Read, together with the      *)
(* collaborators it drives: the state machine (newCommand, cancel, Apply), *)
(* the leader connection, the follower server and the Consensus Module.    *)
(***************************************************************************)
EXTENDS Integers, Sequences, FiniteSets, TLC

\* ------------------------------------------------------------------ bounds
\* Command invocations in one behaviour.
MaxCalls == 3
\* Rsync invocations among them.
MaxRsync == 1
\* External events in one behaviour: Command invocations plus faults of the
\* environment (a node crash, an election that deposes a live leader, a
\* failed connection setup).
MaxEvents == 4
\* Command invocations in one behaviour of the commands-only specification.
MaxCmds == 2
\* RemovePeer invocations in one behaviour.
MaxRemoves == 2
\* Connections made to one listener in one behaviour.
MaxConns == 3
\* Addresses in the peers list NewDB is given.
MaxPeers == 2
\* Polls of newRaft's leader wait loop within which a single-node Consensus
\* Module has elected itself.
ElectionPolls == 2

\* --------------------------------------------------------------- constants
\* The cluster's peers.
Nodes == {"a", "b", "c"}
\* The peers whose server (state machine, callbacks, leader connection) is
\* modelled and on which clients call Command; of the third peer only the
\* Consensus Module and the follower server are: it stays up, it votes, and
\* it may lead.
Servers == {"a", "b"}
\* raft.Leader() when no leader is known: a nil net.Addr.
NoLeader == "nil"
\* What callers invoke: Command with a registered command (Set), with a
\* registered command whose executor returns an error (Fail), with a name
\* that is not registered (Unknown), and Rsync, which is Command("Noop")
\* followed by the receive.
Kinds == {"Set", "Fail", "Unknown", "Rsync"}
\* s.leaderConn == nil
NoConn == [to |-> NoLeader, st |-> "nil"]
\* The addresses a peers list is made of: the address of the listener NewDB
\* is given, the address of another node, and one that does not resolve.
PeerAddrs == {"local", "peer", "bad"}
\* What a NewDB call starts: the state machine's store, the multiplexer's
\* accept loop, the log/stable store, the consensus transport, the Consensus
\* Module instance, and the follower server's accept loop.
Resources == {"state", "mux", "store", "trans", "raft", "serve"}
\* Sleeps of one second that fit in the minute of newRaft's leader wait loop.
MaxPolls == 60
\* The errors of NewDB that come from its environment (file system, stores,
\* listener, Consensus Module construction), whatever the peers list.
EnvErrors == {"mkdir", "state", "mux", "store", "snapshots", "setpeers", "peers",
              "newraft"}
\* The dial codes of the two stream layers NewDB asks the multiplexer for.
dialCodeRaft == 0
dialCodeFlot == 1
Codes == {dialCodeRaft, dialCodeFlot}
\* A first byte that is no registered dial code.
StrayCode == 2
\* No Result.
NoResult == << >>

VARIABLES
    up,          \* up[n]: the process of node n runs
    panicked,    \* panicked[n]: the process died of a nil dereference
    role,        \* role[n]: raft.State() on n
    leaderView,  \* leaderView[n]: raft.Leader() on n
    realLeader,  \* the node whose Apply commits (the leader of the newest term)
    log,         \* the Consensus Module's committed log
    applied,     \* applied[n]: entries the state machine of n has applied
    store,       \* store[n]: the embedded store of n (one key)
    reqnoCtr,    \* reqnoCtr[n]: the state machine's request counter
    pending,     \* pending[n]: the pending-callback table, reqNo -> call
    calls,       \* the Command invocations, in invocation order
    leaderLock,  \* leaderLock[n]: the call holding s.leaderLock, or 0
    leaderConn,  \* leaderConn[n]: s.leaderConn
    wire,        \* wire[<<n, m>>]: forwarded commands written by n, unread by m
    lives,       \* lives[n]: times the process of n was started again
    faults,      \* faults of the environment so far
    dialed,      \* dialed[n]: connections Dial returned to n, not closed by n
    boot,        \* the frame of a NewDB call: pc, peers, what it opened, result
    member,      \* the Consensus Module's peer set and the RemovePeer calls
    mux          \* the Stream Multiplexer of one listener and its connections

vars == <<up, panicked, role, leaderView, realLeader, log, applied, store,
          reqnoCtr, pending, calls, leaderLock, leaderConn, wire, lives, faults,
          dialed, boot, member, mux>>

clusterVars == <<up, panicked, role, leaderView, realLeader, log, applied, store,
                 reqnoCtr, pending, calls, leaderLock, leaderConn, wire, lives,
                 faults, dialed>>

sideVars == <<member, mux>>

raftVars == <<role, leaderView, realLeader>>
fsmVars == <<applied, store, reqnoCtr, pending>>
netVars == <<leaderLock, leaderConn, wire, faults, dialed>>

\* ---------------------------------------------------------------- helpers
\* The environment may inject one more fault.
CanFault == Len(calls) + faults < MaxEvents

\* A majority of the Consensus Module's peer set is among the nodes of S.
Majority(S) == 2 * Cardinality(S \cap member.peers) > Cardinality(member.peers)

Result(val, err, idx) == [val |-> val, err |-> err, idx |-> idx]

\* s.IsLeader(): raft.State() == raft.Leader
IsLeader(n) == role[n] = "Leader"

\* s.Leader(): raft.Leader()
Leader(n) == leaderView[n]

\* The command name Command is called with.
CmdName(kind) == IF kind = "Rsync" THEN "Noop" ELSE kind

\* bytesForCommand(originAddr, reqNo, cmd, args); call is the invocation the
\* bytes were built for (history, not part of the bytes).
bytesForCommand(origin, reqNo, cmd, arg, call) ==
    [origin |-> origin, reqNo |-> reqNo, cmd |-> cmd, arg |-> arg, call |-> call]

\* A function without one of its keys.
Without(f, k) == [x \in DOMAIN f \ {k} |-> f[x]]

\* Call i with some fields changed.
SetCall(i, rec) == [calls EXCEPT ![i] = rec]

\* The highest log index whose apply has delivered a Result so far.
MaxIdx(S) == CHOOSE y \in S \cup {0} : \A z \in S \cup {0} : z <= y

DeliveredIdx ==
    MaxIdx(UNION {{calls[i].sent[k].idx : k \in DOMAIN calls[i].sent} :
                  i \in DOMAIN calls})

\* The call record Command works on: its node and process life, the branch
\* of Command it took (via), its pc, the callback's request number (0: none),
\* the Results sent on the callback's channel, the Results put in the fresh
\* error channel, which of the two Command returned, and for Rsync: the calls
\* of this process that had returned and the highest log index that had
\* delivered a Result when it was invoked, and what it observed on return;
\* retry: a Command of this process had returned a write error before.
NewCall(n, kind, via, pc, reqNo) ==
    [node |-> n, life |-> lives[n], kind |-> kind, via |-> via, pc |-> pc,
     reqNo |-> reqNo, sent |-> << >>, ret |-> << >>, out |-> "none",
     prior |-> IF kind # "Rsync" THEN {}
               ELSE {j \in DOMAIN calls : /\ calls[j].node = n
                                           /\ calls[j].life = lives[n]
                                           /\ calls[j].out # "none"},
     barrier |-> IF kind = "Rsync" THEN DeliveredIdx ELSE 0,
     rsync |-> "none", seen |-> 0, read |-> 0,
     retry |-> \E j \in DOMAIN calls :
                  /\ calls[j].node = n /\ calls[j].life = lives[n]
                  /\ calls[j].out = "ret" /\ calls[j].ret[1].err = "write"]

\* The process that made call i still runs.
Alive(i) == up[calls[i].node] /\ calls[i].life = lives[calls[i].node]

\* Where a call goes when Command has returned: Rsync receives, the others
\* are done.
AfterReturn(kind) == IF kind = "Rsync" THEN "recv" ELSE "done"

\* ------------------------------------------------------------------- Init
InitCluster ==
    /\ up = [n \in Nodes |-> TRUE]
    /\ panicked = [n \in Servers |-> FALSE]
    /\ role = [n \in Servers |-> IF n = "a" THEN "Leader" ELSE "Follower"]
    /\ leaderView = [n \in Servers |-> "a"]
    /\ realLeader = "a"
    /\ log = << >>
    /\ applied = [n \in Servers |-> 0]
    /\ store = [n \in Servers |-> 0]
    /\ reqnoCtr = [n \in Servers |-> 0]
    /\ pending = [n \in Servers |-> << >>]
    /\ calls = << >>
    /\ leaderLock = [n \in Servers |-> 0]
    /\ leaderConn = [n \in Servers |-> NoConn]
    /\ wire = [p \in Servers \X Nodes |-> << >>]
    /\ lives = [n \in Servers |-> 0]
    /\ faults = 0
    /\ dialed = [n \in Servers |-> 0]

\* The peer set is the cluster's nodes and RemovePeer was not called; the
\* multiplexer has no connection.
InitSide ==
    /\ member = [peers |-> Nodes, reqs |-> << >>, rets |-> << >>]
    /\ mux = [dials |-> << >>, queue |-> [code \in Codes |-> << >>],
              accepted |-> << >>, closed |-> {}]

\* The frame of a NewDB call given the peers list peers, at pc.
Frame(pc, peers, open, err) ==
    [pc |-> pc, peers |-> peers, idx |-> 1, open |-> open, err |-> err,
     polls |-> 0, leader |-> FALSE]

\* The cluster runs: on each node NewDB has returned a server.
Init ==
    /\ InitCluster
    /\ InitSide
    /\ boot = [Frame("returned", <<"local", "peer">>, Resources, "nil")
                  EXCEPT !.leader = TRUE, !.idx = 3]

\* ---------------------------------------------------------- state machine
\* flotillaState.newCommand for call i on node n: the next request number,
\* registered in the pending-callback table.
NextReqNo(n) == reqnoCtr[n] + 1

newCommand(n, i) ==
    /\ reqnoCtr' = [reqnoCtr EXCEPT ![n] = NextReqNo(n)]
    /\ pending' = [pending EXCEPT ![n] = @ @@ (NextReqNo(n) :> i)]

\* What the registered executor of a command does to the store and returns.
ExecStore(e, old) == IF e.cmd = "Set" THEN e.arg ELSE old

ExecResult(e, idx) ==
    CASE e.cmd = "Set" -> Result(e.arg, "nil", idx)
      [] e.cmd = "Noop" -> Result(0, "nil", idx)
      [] e.cmd = "Fail" -> Result(0, "exec", idx)
      [] OTHER -> Result(0, "unknown", idx)

\* The callback an entry resolves on node n: the pending entry under the
\* entry's request number, when the entry's origin is n.
Resolves(n, e) == e.origin = n /\ e.reqNo \in DOMAIN pending[n]

\* Delivery of a Result to the channel of call i.
Deliver(i, res) == [calls EXCEPT ![i].sent = Append(@, res)]

\* Mutant of Apply: the executor runs only when a local callback waits.
ApplyLocalOnly(n) ==
    /\ up[n]
    /\ applied[n] < Len(log)
    /\ LET idx == applied[n] + 1
           e == log[idx]
       IN /\ applied' = [applied EXCEPT ![n] = idx]
          /\ IF Resolves(n, e)
             THEN /\ store' = [store EXCEPT ![n] = ExecStore(e, @)]
                  /\ calls' = Deliver(pending[n][e.reqNo], ExecResult(e, idx))
                  /\ pending' = [pending EXCEPT ![n] = Without(@, e.reqNo)]
             ELSE UNCHANGED <<store, calls, pending>>
    /\ UNCHANGED <<up, panicked, raftVars, log, reqnoCtr, netVars, lives>>
    /\ UNCHANGED <<boot, sideVars>>

\* flotillaState.Apply on node n: run the executor on the store, then look
\* the callback up; deliver and remove it when it is there.
Apply(n) ==
    /\ up[n]
    /\ applied[n] < Len(log)
    /\ LET idx == applied[n] + 1
           e == log[idx]
       IN /\ store' = [store EXCEPT ![n] = ExecStore(e, @)]
          /\ applied' = [applied EXCEPT ![n] = idx]
          /\ IF Resolves(n, e)
             THEN /\ calls' = Deliver(pending[n][e.reqNo], ExecResult(e, idx))
                  /\ pending' = [pending EXCEPT ![n] = Without(@, e.reqNo)]
             ELSE UNCHANGED <<calls, pending>>
    /\ UNCHANGED <<up, panicked, raftVars, log, reqnoCtr, netVars, lives>>
    /\ UNCHANGED <<boot, sideVars>>

\* Mutant of cancel: the cancellation error is sent and the entry removed
\* without a look at the pending table.
cancelUnchecked(n, i, st) ==
    [pending |-> [st.pending EXCEPT ![n] = Without(@, st.calls[i].reqNo)],
     calls |-> [st.calls EXCEPT ![i].sent = Append(@, Result(0, "cancelled", 0))]]

\* commandCallback.cancel for the callback of call i on node n, on the table
\* and calls of st: when the callback is still pending, remove it and deliver
\* the cancellation error to its channel.
cancel(n, i, st) ==
    IF st.calls[i].reqNo \in DOMAIN st.pending[n]
    THEN [pending |-> [st.pending EXCEPT ![n] = Without(@, st.calls[i].reqNo)],
          calls |-> [st.calls EXCEPT ![i].sent = Append(@, Result(0, "cancelled", 0))]]
    ELSE st

\* raft.Apply(cmdBytes, commandTimeout) on node n: the entry is committed when
\* n leads the newest term; otherwise the future fails (leadership lost).
raftApply(n, e) ==
    log' = IF n = realLeader /\ up[n] THEN Append(log, e) ELSE log


\* ------------------------------------------------------------------ Command
\* Command returns the channel ch ("cb": the callback's, "ret": the fresh
\* one-element channel holding the dispatch error err).
Return(c, ch, err) ==
    [c EXCEPT !.pc = AfterReturn(c.kind), !.out = ch,
              !.ret = IF ch = "ret" THEN <<Result(0, err, 0)>> ELSE << >>]

\* server.Command, entry: on the leader a callback is created; elsewhere the
\* call goes on to dispatchToLeader and waits for s.leaderLock.
Command(n, kind) ==
    /\ up[n]
    /\ Len(calls) < MaxCalls
    /\ Len(calls) + faults < MaxEvents
    /\ kind = "Rsync" =>
           Cardinality({j \in DOMAIN calls : calls[j].kind = "Rsync"}) < MaxRsync
    /\ LET i == Len(calls) + 1
       IN IF IsLeader(n)
          THEN /\ newCommand(n, i)
               /\ calls' = Append(calls, NewCall(n, kind, "leader", "apply", NextReqNo(n)))
          ELSE /\ calls' = Append(calls, NewCall(n, kind, "follower", "lock", 0))
               /\ UNCHANGED <<reqnoCtr, pending>>
    /\ UNCHANGED <<up, panicked, raftVars, log, applied, store, netVars, lives>>
    /\ UNCHANGED <<boot, sideVars>>

\* server.Command on the leader, after newCommand: the entry is handed to
\* raft.Apply, whose future is dropped, and the callback's channel returned.
CommandApply(i) ==
    /\ calls[i].pc = "apply" /\ Alive(i)
    /\ LET c == calls[i]
       IN /\ raftApply(c.node, bytesForCommand(c.node, c.reqNo, CmdName(c.kind), i, i))
          /\ calls' = SetCall(i, Return(c, "cb", "nil"))
    /\ UNCHANGED <<up, panicked, raftVars, fsmVars, netVars, lives>>
    /\ UNCHANGED <<boot, sideVars>>

\* Mutant of CommandError: the fresh channel is returned without the error
\* Result in it.
CommandErrorEmpty(n, i, cb, err, st) ==
    LET st1 == IF cb # 0 THEN cancel(n, cb, st) ELSE st
    IN [st1 EXCEPT !.calls[i] = [Return(@, "ret", err) EXCEPT !.ret = << >>]]

\* server.Command, lines 226-233: dispatchToLeader returned the callback cb
\* (0: nil) and an error; a callback that came back is cancelled, and a fresh
\* channel holding the error is returned.
CommandError(n, i, cb, err, st) ==
    LET st1 == IF cb # 0 THEN cancel(n, cb, st) ELSE st
    IN [st1 EXCEPT !.calls[i] = Return(@, "ret", err)]

\* ---------------------------------------------------------- dispatchToLeader
\* The condition of line 243: no cached connection, no leader, or a cached
\* connection to another address than the leader's.
NeedReconnect(n) ==
    \/ leaderConn[n] = NoConn
    \/ Leader(n) = NoLeader
    \/ Leader(n) # leaderConn[n].to

\* The process of server n dies: its memory (callbacks, counter, lock, cached
\* connection) is gone with its state machine, which the next start rebuilds
\* from the log; its follower-server handlers end and the connections others
\* hold to it break.
Die(n) ==
    /\ up' = [up EXCEPT ![n] = FALSE]
    /\ role' = [role EXCEPT ![n] = "Follower"]
    /\ leaderView' = [leaderView EXCEPT ![n] = NoLeader]
    /\ realLeader' = IF realLeader = n THEN NoLeader ELSE realLeader
    /\ applied' = [applied EXCEPT ![n] = 0]
    /\ store' = [store EXCEPT ![n] = 0]
    /\ reqnoCtr' = [reqnoCtr EXCEPT ![n] = 0]
    /\ pending' = [pending EXCEPT ![n] = << >>]
    /\ leaderLock' = [leaderLock EXCEPT ![n] = 0]
    /\ leaderConn' = [m \in Servers |->
                        IF m = n THEN NoConn
                        ELSE IF leaderConn[m].to = n /\ leaderConn[m].st = "open"
                             THEN [leaderConn[m] EXCEPT !.st = "broken"]
                             ELSE leaderConn[m]]
    /\ wire' = [p \in Servers \X Nodes |-> IF p[2] = n THEN << >> ELSE wire[p]]
    /\ dialed' = [dialed EXCEPT ![n] = 0]

\* Mutant of AfterClose: the stale connection is left open.
AfterCloseSkipped(n) == dialed[n]

\* dispatchToLeader, lines 249-251: the connections n holds once the stale
\* cached connection, when there is one that is not closed yet, is closed.
AfterClose(n) ==
    IF leaderConn[n] = NoConn \/ leaderConn[n].st = "closed"
    THEN dialed[n] ELSE dialed[n] - 1

\* dispatchToLeader, lines 240-261: s.leaderLock.Lock(), the check of the
\* cached connection and, on a reconnect, the close of the stale connection,
\* s.rpcLayer.Dial(s.Leader().String(), ...) and newConnToLeader.  With no
\* leader the call of String() on a nil address panics; a dial to a node that
\* is down fails, and a dial to a node that is up may fail (a fault of the
\* network), both leaving the closed stale connection cached; the connection
\* setup may fail, which leaves no cached connection and (newConnToLeader)
\* no open connection.
dispatchToLeader(i) ==
    /\ calls[i].pc = "lock" /\ Alive(i)
    /\ LET c == calls[i]
           n == c.node
           to == Leader(n)
           stale == IF leaderConn[n] = NoConn THEN NoConn
                    ELSE [leaderConn[n] EXCEPT !.st = "closed"]
       IN /\ leaderLock[n] = 0
          /\ IF ~NeedReconnect(n)
             THEN /\ leaderLock' = [leaderLock EXCEPT ![n] = i]
                  /\ calls' = [calls EXCEPT ![i].pc = "fwd"]
                  /\ UNCHANGED <<up, panicked, raftVars, fsmVars, leaderConn, wire, faults,
                                 dialed>>
             ELSE \/ /\ to = NoLeader
                     /\ Die(n)
                     /\ panicked' = [panicked EXCEPT ![n] = TRUE]
                     /\ UNCHANGED <<calls, faults>>
                  \/ /\ to # NoLeader /\ (~up[to] \/ CanFault)
                     /\ faults' = IF up[to] THEN faults + 1 ELSE faults
                     /\ leaderConn' = [leaderConn EXCEPT ![n] = stale]
                     /\ calls' = CommandError(n, i, 0, "dial",
                                     [pending |-> pending, calls |-> calls]).calls
                     /\ dialed' = [dialed EXCEPT ![n] = AfterClose(n)]
                     /\ UNCHANGED <<up, panicked, raftVars, fsmVars, leaderLock, wire>>
                  \/ /\ to # NoLeader /\ up[to]
                     /\ leaderConn' = [leaderConn EXCEPT ![n] = [to |-> to, st |-> "open"]]
                     /\ leaderLock' = [leaderLock EXCEPT ![n] = i]
                     /\ calls' = [calls EXCEPT ![i].pc = "fwd"]
                     /\ dialed' = [dialed EXCEPT ![n] = AfterClose(n) + 1]
                     /\ UNCHANGED <<up, panicked, raftVars, fsmVars, wire, faults>>
                  \/ /\ to # NoLeader /\ up[to] /\ CanFault
                     /\ faults' = faults + 1
                     /\ leaderConn' = [leaderConn EXCEPT ![n] = NoConn]
                     /\ calls' = CommandError(n, i, 0, "setup",
                                     [pending |-> pending, calls |-> calls]).calls
                     /\ dialed' = [dialed EXCEPT ![n] = AfterClose(n)]
                     /\ UNCHANGED <<up, panicked, raftVars, fsmVars, leaderLock, wire>>
    /\ UNCHANGED <<log, lives>>
    /\ UNCHANGED <<boot, sideVars>>

\* newCommand and forwardCommand on the cached connection: a write on an open
\* connection puts the message on the wire and the callback is returned; a
\* write on a closed or broken one fails.
DispatchForward(i) ==
    /\ calls[i].pc = "fwd" /\ Alive(i)
    /\ LET c == calls[i]
           n == c.node
           to == leaderConn[n].to
           r == NextReqNo(n)
           msg == [reqNo |-> r, cmd |-> CmdName(c.kind), arg |-> i, call |-> i]
       IN /\ newCommand(n, i)
          /\ IF leaderConn[n].st = "open"
             THEN /\ wire' = [wire EXCEPT ![<<n, to>>] = Append(@, msg)]
                  /\ calls' = SetCall(i, Return([c EXCEPT !.reqNo = r], "cb", "nil"))
                  /\ leaderLock' = [leaderLock EXCEPT ![n] = 0]
             ELSE /\ calls' = [calls EXCEPT ![i].reqNo = r, ![i].pc = "cancel"]
                  /\ UNCHANGED <<wire, leaderLock>>
    /\ UNCHANGED <<up, panicked, raftVars, log, applied, store, leaderConn, faults, lives,
                   dialed>>
    /\ UNCHANGED <<boot, sideVars>>

\* Mutant of DispatchCancel: the cancellation error is sent on the callback's
\* channel without a look at the pending table.
DispatchCancelDirect(i) ==
    /\ calls[i].pc = "cancel" /\ Alive(i)
    /\ LET n == calls[i].node
           st == [pending |-> [pending EXCEPT ![n] = Without(@, calls[i].reqNo)],
                  calls |-> [calls EXCEPT ![i].sent = Append(@, Result(0, "cancelled", 0))]]
           fin == CommandError(n, i, 0, "write", st)
       IN /\ pending' = fin.pending
          /\ calls' = fin.calls
          /\ leaderLock' = [leaderLock EXCEPT ![n] = 0]
    /\ UNCHANGED <<up, panicked, raftVars, log, applied, store, reqnoCtr, leaderConn,
                   wire, faults, lives, dialed>>
    /\ UNCHANGED <<boot, sideVars>>

\* The write failed: cb.cancel(), return nil and the error (line 264-267),
\* the deferred unlock, and Command's error branch.
DispatchCancel(i) ==
    /\ calls[i].pc = "cancel" /\ Alive(i)
    /\ LET n == calls[i].node
           st == cancel(n, i, [pending |-> pending, calls |-> calls])
           fin == CommandError(n, i, 0, "write", st)
       IN /\ pending' = fin.pending
          /\ calls' = fin.calls
          /\ leaderLock' = [leaderLock EXCEPT ![n] = 0]
    /\ UNCHANGED <<up, panicked, raftVars, log, applied, store, reqnoCtr, leaderConn,
                   wire, faults, lives, dialed>>
    /\ UNCHANGED <<boot, sideVars>>

\* ------------------------------------------------------------ follower server
\* serveFollower on node m, for the connection from n: the next forwarded
\* command is read and handed to raft.Apply under the origin n and the
\* request number of the message.
serveFollower(m, n) ==
    /\ up[m]
    /\ wire[<<n, m>>] # << >>
    /\ LET msg == Head(wire[<<n, m>>])
       IN raftApply(m, bytesForCommand(n, msg.reqNo, msg.cmd, msg.arg, msg.call))
    /\ wire' = [wire EXCEPT ![<<n, m>>] = Tail(@)]
    /\ UNCHANGED <<up, panicked, raftVars, fsmVars, calls, leaderLock, leaderConn,
                   faults, lives, dialed>>
    /\ UNCHANGED <<boot, sideVars>>

\* ---------------------------------------------------------------- Rsync, Read
\* The channel Command returned to call i.
Chan(c) == IF c.out = "ret" THEN c.ret ELSE IF c.out = "cb" THEN c.sent ELSE << >>

\* server.Read: a read transaction on the local store.
Read(n) == store[n]

\* server.Rsync after Command("Noop") returned: the receive from the channel,
\* and the error of the Result.  seen and read are what a Read right after
\* the return observes.
Rsync(i) ==
    /\ calls[i].pc = "recv" /\ Alive(i)
    /\ Chan(calls[i]) # << >>
    /\ calls' = [calls EXCEPT ![i].pc = "done",
                              ![i].rsync = Chan(calls[i])[1].err,
                              ![i].seen = applied[calls[i].node],
                              ![i].read = Read(calls[i].node)]
    /\ UNCHANGED <<up, panicked, raftVars, log, fsmVars, netVars, lives>>
    /\ UNCHANGED <<boot, sideVars>>

\* ------------------------------------------------------------- environment
UpNodes == {n \in Nodes : up[n]}

\* The process of a server is killed.
Crash(n) ==
    /\ up[n]
    /\ CanFault
    /\ faults' = faults + 1
    /\ Die(n)
    /\ UNCHANGED <<panicked, log, calls, lives>>
    /\ UNCHANGED <<boot, sideVars>>

\* A killed node is started again: NewDB builds a fresh state machine (the
\* request counter starts again, no callback is pending), the Consensus
\* Module replays the log into it, and NewDB returns once a leader is seen:
\* the leader of the newest term, or the node itself when the cluster had no
\* leader and elects it.
Restart(n) ==
    /\ ~up[n] /\ ~panicked[n]
    /\ up' = [up EXCEPT ![n] = TRUE]
    /\ lives' = [lives EXCEPT ![n] = @ + 1]
    /\ IF realLeader # NoLeader
       THEN /\ leaderView' = [leaderView EXCEPT ![n] = realLeader]
            /\ UNCHANGED <<role, realLeader>>
       ELSE /\ n \in member.peers
            /\ Majority(UpNodes \cup {n})
            /\ realLeader' = n
            /\ role' = [role EXCEPT ![n] = "Leader"]
            /\ leaderView' = [leaderView EXCEPT ![n] = n]
    /\ UNCHANGED <<panicked, log, fsmVars, calls, netVars>>
    /\ UNCHANGED <<boot, sideVars>>

\* The Consensus Module elects node m for a new term: after the leader died,
\* or (a fault) while a leader that lost contact with the majority still runs.
Elect(m) ==
    /\ up[m] /\ m # realLeader
    /\ m \in member.peers
    /\ Majority(UpNodes)
    /\ IF realLeader = NoLeader THEN faults' = faults
       ELSE CanFault /\ faults' = faults + 1
    /\ realLeader' = m
    /\ IF m \in Servers
       THEN /\ role' = [role EXCEPT ![m] = "Leader"]
            /\ leaderView' = [leaderView EXCEPT ![m] = m]
       ELSE UNCHANGED <<role, leaderView>>
    /\ UNCHANGED <<up, panicked, log, fsmVars, calls, leaderLock, leaderConn, wire, lives,
                   dialed>>
    /\ UNCHANGED <<boot, sideVars>>

\* A node that still believes it leads an old term steps down.
StepDown(n) ==
    /\ up[n] /\ role[n] = "Leader" /\ realLeader # n
    /\ role' = [role EXCEPT ![n] = "Follower"]
    /\ leaderView' = [leaderView EXCEPT ![n] = NoLeader]
    /\ UNCHANGED <<up, panicked, realLeader, log, fsmVars, calls,
                   netVars, lives>>
    /\ UNCHANGED <<boot, sideVars>>

\* A follower stops hearing from the leader it knew.
LoseLeader(n) ==
    /\ up[n] /\ role[n] = "Follower"
    /\ leaderView[n] \notin {NoLeader, realLeader}
    /\ leaderView' = [leaderView EXCEPT ![n] = NoLeader]
    /\ UNCHANGED <<up, panicked, role, realLeader, log, fsmVars, calls,
                   netVars, lives>>
    /\ UNCHANGED <<boot, sideVars>>

\* A node hears from the leader of the newest term.
LearnLeader(n) ==
    /\ up[n] /\ realLeader \notin {NoLeader, n}
    /\ leaderView[n] # realLeader
    /\ leaderView' = [leaderView EXCEPT ![n] = realLeader]
    /\ role' = [role EXCEPT ![n] = "Follower"]
    /\ UNCHANGED <<up, panicked, realLeader, log, fsmVars, calls,
                   netVars, lives>>
    /\ UNCHANGED <<boot, sideVars>>

\* ---------------------------------------------------------------- RemovePeer
\* raft.RemovePeer(deadPeer).Error() on node n: the Consensus Module commits
\* the removal when n leads the newest term and the address is in the peer
\* set, and fails the future otherwise.
RemoveOutcome(n, addr) ==
    IF n # realLeader THEN "notleader"
    ELSE IF addr \notin member.peers THEN "unknownpeer"
    ELSE "nil"

\* Mutant of RemovePeer: the request is issued without asking IsLeader.
RemovePeerAlways(n, addr) ==
    /\ up[n]
    /\ Len(member.rets) < MaxRemoves
    /\ LET err == RemoveOutcome(n, addr)
           req == [node |-> n, addr |-> addr, err |-> err]
       IN /\ member' = [peers |-> IF err = "nil" THEN member.peers \ {addr}
                                  ELSE member.peers,
                        reqs |-> Append(member.reqs, req),
                        rets |-> Append(member.rets,
                                    [node |-> n, addr |-> addr, err |-> err,
                                     isLeader |-> IsLeader(n), led |-> n = realLeader,
                                     req |-> Len(member.reqs) + 1])]
          /\ IF err = "nil" /\ addr = n
             THEN /\ realLeader' = NoLeader
                  /\ role' = [role EXCEPT ![n] = "Follower"]
                  /\ leaderView' = [leaderView EXCEPT ![n] = NoLeader]
             ELSE UNCHANGED raftVars
    /\ UNCHANGED <<up, panicked, log, fsmVars, calls, netVars, lives, boot, mux>>

\* server.RemovePeer(deadPeer) on node n, lines 194-200: on a node that says
\* it is the leader the removal is requested from the Consensus Module and
\* the outcome of the request returned; elsewhere nil is returned.  The return
\* is recorded with what IsLeader said (isLeader), whether n led the newest
\* term (led), and the request issued (req, 0: none).  A leader whose own
\* removal is committed steps down.
RemovePeer(n, addr) ==
    /\ up[n]
    /\ Len(member.rets) < MaxRemoves
    /\ IF IsLeader(n)
       THEN LET err == RemoveOutcome(n, addr)
                req == [node |-> n, addr |-> addr, err |-> err]
            IN /\ member' = [peers |-> IF err = "nil" THEN member.peers \ {addr}
                                       ELSE member.peers,
                             reqs |-> Append(member.reqs, req),
                             rets |-> Append(member.rets,
                                         [node |-> n, addr |-> addr, err |-> err,
                                          isLeader |-> TRUE, led |-> n = realLeader,
                                          req |-> Len(member.reqs) + 1])]
               /\ IF err = "nil" /\ addr = n
                  THEN /\ realLeader' = NoLeader
                       /\ role' = [role EXCEPT ![n] = "Follower"]
                       /\ leaderView' = [leaderView EXCEPT ![n] = NoLeader]
                  ELSE UNCHANGED raftVars
       ELSE /\ member' = [member EXCEPT !.rets =
                             Append(@, [node |-> n, addr |-> addr, err |-> "nil",
                                        isLeader |-> FALSE, led |-> n = realLeader,
                                        req |-> 0])]
            /\ UNCHANGED raftVars
    /\ UNCHANGED <<up, panicked, log, fsmVars, calls, netVars, lives, boot, mux>>

\* Membership changes by RemovePeer while nodes crash, restart and elect.
NextRemovePeer ==
    \/ \E n \in Servers, addr \in Nodes : RemovePeer(n, addr)
    \/ \E n \in Servers : Crash(n)
    \/ \E n \in Servers : Restart(n)
    \/ \E n \in Nodes : Elect(n)
    \/ \E n \in Servers : StepDown(n)
    \/ \E n \in Servers : LoseLeader(n)
    \/ \E n \in Servers : LearnLeader(n)

SpecRemovePeer == Init /\ [][NextRemovePeer]_vars

\* ------------------------------------------------------------ NewDB, newRaft
\* The peers lists NewDB may be given.
PeerLists == UNION {[1..k -> PeerAddrs] : k \in 0..MaxPeers}

Range(f) == {f[x] : x \in DOMAIN f}

\* A step of the call that goes on to pc, having opened the resources opened.
Step(pc, opened) ==
    boot' = [boot EXCEPT !.pc = pc, !.open = @ \cup opened]

\* The call returns nil and the error err, having closed the resources closed.
Fail(err, closed) ==
    boot' = [boot EXCEPT !.pc = "returned", !.err = err, !.open = @ \ closed]

\* A process calls NewDB with some peers list.
InitNewDB ==
    /\ InitCluster
    /\ InitSide
    /\ boot \in {Frame("mkdir", ps, {}, "none") : ps \in PeerLists}

\* NewDB, lines 58-63: the two os.MkdirAll.
NewDBMkdirAll ==
    /\ boot.pc = "mkdir"
    /\ \/ Step("state", {})
       \/ Fail("mkdir", {})
    /\ UNCHANGED <<clusterVars, sideVars>>

\* NewDB, lines 64-80: the command registry and newFlotillaState, which opens
\* the state machine's store.
NewDBState ==
    /\ boot.pc = "state"
    /\ \/ Step("mux", {"state"})
       \/ Fail("state", {})
    /\ UNCHANGED <<clusterVars, sideVars>>

\* NewDB, lines 81-84: NewMultiStream, which starts the accept loop on the
\* listener.
NewDBMultiStream ==
    /\ boot.pc = "mux"
    /\ \/ Step("store", {"mux"})
       \/ Fail("mux", {})
    /\ UNCHANGED <<clusterVars, sideVars>>

\* newRaft, lines 116-119: the store for logs and stable storage.
newRaftStore ==
    /\ boot.pc = "store"
    /\ \/ Step("snapshots", {"store"})
       \/ Fail("store", {})
    /\ UNCHANGED <<clusterVars, sideVars>>

\* newRaft, lines 122-126: the snapshot store; on an error store.Close().
newRaftSnapshots ==
    /\ boot.pc = "snapshots"
    /\ \/ Step("trans", {})
       \/ Fail("snapshots", {"store"})
    /\ UNCHANGED <<clusterVars, sideVars>>

\* newRaft, line 129: the network transport.
newRaftTransport ==
    /\ boot.pc = "trans"
    /\ Step("resolve", {"trans"})
    /\ UNCHANGED <<clusterVars, sideVars>>

\* newRaft, lines 132-138: one turn of the loop that resolves the peers; an
\* address that does not resolve returns the error.
newRaftResolve ==
    /\ boot.pc = "resolve"
    /\ IF boot.idx > Len(boot.peers) THEN Step("setpeers", {})
       ELSE IF boot.peers[boot.idx] = "bad" THEN Fail("resolve", {})
       ELSE boot' = [boot EXCEPT !.idx = @ + 1]
    /\ UNCHANGED <<clusterVars, sideVars>>

\* newRaft, lines 139-142: raftPeers.SetPeers.
newRaftSetPeers ==
    /\ boot.pc = "setpeers"
    /\ \/ Step("peers", {})
       \/ Fail("setpeers", {})
    /\ UNCHANGED <<clusterVars, sideVars>>

\* newRaft, lines 144-151: raftPeers.Peers(), on an error store.Close(); then
\* the local address must be among the peers.
newRaftPeers ==
    /\ boot.pc = "peers"
    /\ \/ Fail("peers", {"store"})
       \/ IF "local" \in Range(boot.peers) THEN Step("newraft", {})
          ELSE Fail("notcontained", {})
    /\ UNCHANGED <<clusterVars, sideVars>>

\* Mutant of EnableSingleNode: single-node mode is never enabled.
EnableSingleNodeNever == FALSE

\* newRaft, lines 154-164: raft.NewRaft, single-node when there is one peer;
\* on an error store.Close() and trans.Close().
EnableSingleNode == Len(boot.peers) = 1

newRaftNewRaft ==
    /\ boot.pc = "newraft"
    /\ \/ Step("wait", {"raft"})
       \/ Fail("newraft", {"store", "trans"})
    /\ UNCHANGED <<clusterVars, sideVars>>

\* The started Consensus Module instance comes to know a leader: itself in a
\* single-node cluster, else one elected with the other peers.
newRaftLeaderKnown ==
    /\ boot.pc = "wait" /\ ~boot.leader
    /\ EnableSingleNode \/ "peer" \in Range(boot.peers)
    /\ boot' = [boot EXCEPT !.leader = TRUE]
    /\ UNCHANGED <<clusterVars, sideVars>>

\* A single-node Consensus Module elects itself within its election timeout:
\* the wait loop cannot sleep on past that time with no leader.
SelfElectionDue ==
    EnableSingleNode /\ ~boot.leader /\ boot.polls >= ElectionPolls

\* Mutant of newRaftWait: when the minute is over the instance is returned.
newRaftWaitNoError ==
    /\ boot.pc = "wait"
    /\ IF boot.leader THEN Step("serve", {})
       ELSE IF boot.polls < MaxPolls
            THEN ~SelfElectionDue /\ boot' = [boot EXCEPT !.polls = @ + 1]
       ELSE Step("serve", {})
    /\ UNCHANGED <<clusterVars, sideVars>>

\* newRaft, lines 166-179: one turn of the wait loop: a leader ends it and
\* the instance is returned; without one the loop sleeps a second, and
\* returns an error when the minute is over.
newRaftWait ==
    /\ boot.pc = "wait"
    /\ IF boot.leader THEN Step("serve", {})
       ELSE IF boot.polls < MaxPolls
            THEN ~SelfElectionDue /\ boot' = [boot EXCEPT !.polls = @ + 1]
       ELSE Fail("timeout", {})
    /\ UNCHANGED <<clusterVars, sideVars>>

\* NewDB, lines 90-101: the server, go s.serveFollowers(), return s, nil.
NewDBServe ==
    /\ boot.pc = "serve"
    /\ boot' = [boot EXCEPT !.pc = "returned", !.err = "nil", !.open = @ \cup {"serve"}]
    /\ UNCHANGED <<clusterVars, sideVars>>

NextNewDB ==
    \/ NewDBMkdirAll
    \/ NewDBState
    \/ NewDBMultiStream
    \/ newRaftStore
    \/ newRaftSnapshots
    \/ newRaftTransport
    \/ newRaftResolve
    \/ newRaftSetPeers
    \/ newRaftPeers
    \/ newRaftNewRaft
    \/ newRaftLeaderKnown
    \/ newRaftWait
    \/ NewDBServe

SpecNewDB == InitNewDB /\ [][NextNewDB]_vars

\* ----------------------------------------------------------------- bootstrap
\* The node of a cluster of its own: its address, the only peer.
Local == "a"

\* No node runs; NewDB is called on Local with the peers list [Local].
InitBootstrap ==
    /\ up = [n \in Nodes |-> FALSE]
    /\ panicked = [n \in Servers |-> FALSE]
    /\ role = [n \in Servers |-> "Follower"]
    /\ leaderView = [n \in Servers |-> NoLeader]
    /\ realLeader = NoLeader
    /\ log = << >>
    /\ applied = [n \in Servers |-> 0]
    /\ store = [n \in Servers |-> 0]
    /\ reqnoCtr = [n \in Servers |-> 0]
    /\ pending = [n \in Servers |-> << >>]
    /\ calls = << >>
    /\ leaderLock = [n \in Servers |-> 0]
    /\ leaderConn = [n \in Servers |-> NoConn]
    /\ wire = [p \in Servers \X Nodes |-> << >>]
    /\ lives = [n \in Servers |-> 0]
    /\ faults = 0
    /\ dialed = [n \in Servers |-> 0]
    /\ boot = Frame("mkdir", <<"local">>, {}, "none")
    /\ member = [peers |-> {Local}, reqs |-> << >>, rets |-> << >>]
    /\ mux = [dials |-> << >>, queue |-> [code \in Codes |-> << >>],
              accepted |-> << >>, closed |-> {}]

\* NewDB returned the server to its caller: the node runs, with the role and
\* the leader its Consensus Module reported to the wait loop.
Serving ==
    /\ boot.pc = "returned" /\ boot.err = "nil"
    /\ ~up[Local]
    /\ up' = [up EXCEPT ![Local] = TRUE]
    /\ IF boot.leader /\ EnableSingleNode
       THEN /\ realLeader' = Local
            /\ role' = [role EXCEPT ![Local] = "Leader"]
            /\ leaderView' = [leaderView EXCEPT ![Local] = Local]
       ELSE UNCHANGED raftVars
    /\ UNCHANGED <<panicked, log, fsmVars, calls, netVars, lives, boot, sideVars>>

NextBootstrap ==
    \/ NextNewDB
    \/ Serving
    \/ Command(Local, "Set")
    \/ \E i \in DOMAIN calls : CommandApply(i)
    \/ Apply(Local)

SpecBootstrap == InitBootstrap /\ [][NextBootstrap]_vars

\* ------------------------------------------------------------ multiplexer
\* NewDB, line 86: newRaft is given streamLayers[dialCodeRaft], the layer of
\* the consensus transport.
raftLayer == dialCodeRaft

\* Mutant of rpcLayer: the server is given the layer of the transport.
rpcLayerOfRaft == dialCodeRaft

\* NewDB, line 94: the server's rpcLayer is streamLayers[dialCodeFlot].
rpcLayer == dialCodeFlot

\* The connections made to the listener so far.
ConnsMade ==
    Len(mux.dials) + Len(mux.queue[dialCodeRaft]) + Len(mux.queue[dialCodeFlot])
        + Len(mux.accepted) + Cardinality(mux.closed)

\* The first byte a dialer writes: the code of the layer it dials through
\* (the transport of a peer: raftLayer; dispatchToLeader of a follower, line
\* 252: rpcLayer), or, from a stranger, a byte that is no dial code.
FirstByte(from) ==
    CASE from = "raft" -> raftLayer
      [] from = "flot" -> rpcLayer
      [] OTHER -> StrayCode

\* A connection reaches the listener, its first byte unread.
LayerDial(from) ==
    /\ ConnsMade < MaxConns
    /\ mux' = [mux EXCEPT !.dials =
                  Append(@, [id |-> ConnsMade + 1, code |-> FirstByte(from),
                             from |-> from])]
    /\ UNCHANGED <<clusterVars, boot, member>>

\* The multiplexer's accept loop: the first byte of the next connection is
\* read and the connection put on the accept queue of the layer registered
\* for it; with an unrecognized code the connection is closed.
muxAcceptLoop ==
    /\ mux.dials # << >>
    /\ LET conn == Head(mux.dials)
       IN IF conn.code \in Codes
          THEN mux' = [mux EXCEPT !.dials = Tail(@),
                                  !.queue[conn.code] = Append(@, conn)]
          ELSE mux' = [mux EXCEPT !.dials = Tail(@),
                                  !.closed = @ \cup {conn.id}]
    /\ UNCHANGED <<clusterVars, boot, member>>

\* Accept of the layer of code layer, by the acceptor by.
LayerAccept(layer, by) ==
    /\ mux.queue[layer] # << >>
    /\ mux' = [mux EXCEPT !.queue[layer] = Tail(@),
                          !.accepted = Append(@, [conn |-> Head(mux.queue[layer]),
                                                  layer |-> layer, by |-> by])]
    /\ UNCHANGED <<clusterVars, boot, member>>

\* server.serveFollowers, lines 182-191: s.rpcLayer.Accept(), and a handler
\* for the connection.
serveFollowers == LayerAccept(rpcLayer, "flot")

\* The consensus transport accepts from the layer newRaft was given.
transportAccept == LayerAccept(raftLayer, "raft")

NextMux ==
    \/ \E from \in {"raft", "flot", "stray"} : LayerDial(from)
    \/ muxAcceptLoop
    \/ serveFollowers
    \/ transportAccept

SpecMux == Init /\ [][NextMux]_vars

\* --------------------------------------------------------------------- Next
Next ==
    \/ \E n \in Servers, kind \in {"Set", "Rsync"} : Command(n, kind)
    \/ \E i \in DOMAIN calls : CommandApply(i)
    \/ \E i \in DOMAIN calls : dispatchToLeader(i)
    \/ \E i \in DOMAIN calls : DispatchForward(i)
    \/ \E i \in DOMAIN calls : DispatchCancel(i)
    \/ \E m \in Nodes, n \in Servers : serveFollower(m, n)
    \/ \E n \in Servers : Apply(n)
    \/ \E i \in DOMAIN calls : Rsync(i)
    \/ \E n \in Servers : Crash(n)
    \/ \E n \in Servers : Restart(n)
    \/ \E n \in Nodes : Elect(n)
    \/ \E n \in Servers : StepDown(n)
    \/ \E n \in Servers : LoseLeader(n)
    \/ \E n \in Servers : LearnLeader(n)

Spec == Init /\ [][Next]_vars

\* The commands of a cluster without crashes and elections, over every kind of command: the
\* registered Set, the failing executor, the unknown name, and Rsync.
NextCommands ==
    \/ \E n \in Servers, kind \in Kinds : Len(calls) < MaxCmds /\ Command(n, kind)
    \/ \E i \in DOMAIN calls : CommandApply(i)
    \/ \E i \in DOMAIN calls : dispatchToLeader(i)
    \/ \E i \in DOMAIN calls : DispatchForward(i)
    \/ \E m \in Nodes, n \in Servers : serveFollower(m, n)
    \/ \E n \in Servers : Apply(n)
    \/ \E i \in DOMAIN calls : Rsync(i)

SpecCommands == Init /\ [][NextCommands]_vars

TypeOK ==
    /\ \A n \in Servers : applied[n] <= Len(log)
    /\ Len(calls) <= MaxCalls

\* ------------------------------------------------------------------ claims
\* Command has returned a channel to call i.
Returned(i) == calls[i].out # "none"

\* The Results the channel returned to call i has received.
Received(i) == Chan(calls[i])

\* A Result can still reach the callback's channel of call i: the entry
\* written for it is in the log and not applied on its node, or its forwarded
\* message is unread on the wire.  (A cancel runs before Command returns.)
InFlight(i) ==
    LET n == calls[i].node
    IN \/ \E k \in DOMAIN log :
             k > applied[n] /\ log[k].origin = n /\ log[k].reqNo = calls[i].reqNo
       \/ \E m \in Nodes : \E k \in DOMAIN wire[<<n, m>>] :
             wire[<<n, m>>][k].reqNo = calls[i].reqNo

\* C1 (as claimed): every result channel Command returned eventually receives
\* a Result, also when raft.Apply fails before commit: no channel of a running
\* process is left empty with nothing left that could deliver to it.
C1_EventualDelivery ==
    \A i \in DOMAIN calls :
        (Alive(i) /\ Returned(i) /\ Received(i) = << >>) => InFlight(i)

\* C2: no channel is sent more than one Result, whatever the interleaving of
\* the apply of the entry and the cancel after a write failure; a cancelled
\* callback has exactly one Result and is gone from the pending table.
C2_AtMostOnce ==
    \A i \in DOMAIN calls :
        /\ Len(calls[i].sent) <= 1
        /\ Len(calls[i].ret) <= 1
        /\ (calls[i].ret # << >> /\ calls[i].ret[1].err = "write") =>
               /\ Len(calls[i].sent) = 1
               /\ Alive(i) => calls[i].reqNo \notin DOMAIN pending[calls[i].node]

\* C2, witness: a callback whose write failed was resolved by the apply of an
\* entry with its (origin, request number) before the cancel ran.
C2_Witness ==
    \E i \in DOMAIN calls :
        /\ calls[i].ret # << >> /\ calls[i].ret[1].err = "write"
        /\ calls[i].sent # << >> /\ calls[i].sent[1].idx > 0

\* C3 (as claimed): a Result delivered by the apply of a log entry goes to the
\* callback of the invocation that produced the entry, on the entry's origin,
\* also across restarts of the origin.
C3_RightCaller ==
    \A i \in DOMAIN calls : \A k \in DOMAIN calls[i].sent :
        LET idx == calls[i].sent[k].idx
        IN idx > 0 => log[idx].call = i /\ log[idx].origin = calls[i].node

\* C4 (as claimed): after the leader died and a new leader is elected, a
\* caller on a surviving server gets a successful Result by calling Command
\* again; for that the server must still run, so no Command may have killed
\* it.
FailedOver == \E n \in Servers : ~up[n] /\ ~panicked[n] /\ realLeader # NoLeader

C4_FailoverLiveness ==
    FailedOver => \A n \in Servers : ~panicked[n]

\* The log index of the entry written for call i, 0 when none is committed.
EntryOf(i) ==
    MaxIdx({k \in DOMAIN log : log[k].call = i})

\* C5 (as claimed): a Set forwarded by a follower, followed on that node by an
\* Rsync that returns nil, has been applied to the local store when Rsync
\* returns, so that Read sees it as it would on the leader.
C5_LeaderTransparency ==
    \A j \in DOMAIN calls : \A i \in calls[j].prior :
        (calls[j].rsync = "nil" /\ calls[i].kind = "Set" /\ calls[i].via = "follower"
            /\ calls[i].out = "cb")
        => (EntryOf(i) > 0 /\ EntryOf(i) <= calls[j].seen)

\* C6 (as claimed): when Rsync returns nil on a node, every entry whose apply
\* had delivered a Result anywhere before the Rsync was invoked has been
\* applied to that node's store.
C6_RsyncBarrier ==
    \A j \in DOMAIN calls :
        calls[j].rsync = "nil" => calls[j].seen >= calls[j].barrier

\* C7: a Command whose dispatch failed returned a channel holding exactly one
\* Result, the dispatch error; after a dial or setup failure it has no request
\* number and no callback; after a write failure its callback is cancelled
\* and gone from the pending table; and the step that returns the error
\* leaves every other call's record (channels included) and every other
\* pending entry as they were.
DispatchFailed(i) == calls[i].out = "ret"

C7_Contract ==
    \A i \in DOMAIN calls : DispatchFailed(i) =>
        /\ Len(calls[i].ret) = 1
        /\ calls[i].ret[1].err \in {"dial", "setup", "write"}
        /\ calls[i].ret[1].err \in {"dial", "setup"} =>
               /\ calls[i].reqNo = 0
               /\ calls[i].sent = << >>
               /\ \A n \in Servers : \A r \in DOMAIN pending[n] : pending[n][r] # i
        /\ calls[i].ret[1].err = "write" =>
               /\ calls[i].reqNo > 0
               /\ Len(calls[i].sent) = 1
               /\ Alive(i) => calls[i].reqNo \notin DOMAIN pending[calls[i].node]

C7_Frame ==
    \A i \in DOMAIN calls :
        (~DispatchFailed(i) /\ DispatchFailed(i)') =>
            /\ \A j \in DOMAIN calls \ {i} : calls'[j] = calls[j]
            /\ \A n \in Servers :
                   /\ DOMAIN pending'[n] \subseteq DOMAIN pending[n]
                   /\ \A r \in DOMAIN pending[n] :
                          pending[n][r] # i =>
                             r \in DOMAIN pending'[n] /\ pending'[n][r] = pending[n][r]

C8_CommitOrder ==
    \A i, j \in DOMAIN calls :
        (/\ calls[i].via = "leader" /\ calls[j].via = "leader"
         /\ calls[i].node = calls[j].node /\ calls[i].life = calls[j].life
         /\ EntryOf(i) > 0 /\ EntryOf(i) < EntryOf(j)
         /\ calls[j].sent # << >>)
        => calls[i].sent # << >>

\* The store after the executors of the first k entries of the log ran in
\* commit order on an empty store.
RECURSIVE StoreAfter(_)
StoreAfter(k) == IF k = 0 THEN 0 ELSE ExecStore(log[k], StoreAfter(k - 1))

\* C9: every replica has executed the side effect of every entry it applied,
\* in commit order, with or without a local callback for it; two replicas
\* that applied the same prefix hold the same store; and whatever the entries
\* applied so far (failed executor, unknown name), the next committed entry
\* can be applied.
C9_BroadcastApply ==
    /\ \A n \in Servers : store[n] = StoreAfter(applied[n])
    /\ \A n, m \in Servers : applied[n] = applied[m] => store[n] = store[m]
    /\ \A n \in Servers : (up[n] /\ applied[n] < Len(log)) => ENABLED Apply(n)

\* C9, witness: a replica without a callback for them has applied an entry
\* whose executor failed or whose name is unknown, and then a Set after it,
\* which its store holds.
C9_Witness ==
    \E n \in Servers : \E k \in 1..(applied[n] - 1) :
        /\ log[k].cmd \in {"Fail", "Unknown"} /\ log[k].origin # n
        /\ log[k + 1].cmd = "Set" /\ log[k + 1].origin # n
        /\ applied[n] = k + 1
        /\ store[n] = log[k + 1].arg

\* C10 (as claimed): when NewDB has returned an error, every resource the call
\* started is closed or stopped.
C10_NothingLeftRunning ==
    (boot.pc = "returned" /\ boot.err # "nil") => boot.open = {}

OneRequestEach ==
    /\ Len(member.reqs) =
          Cardinality({k \in DOMAIN member.rets : member.rets[k].req # 0})
    /\ \A k, l \in DOMAIN member.rets :
          (k # l /\ member.rets[k].req # 0) => member.rets[k].req # member.rets[l].req

\* C11 (amended): RemovePeer on a node whose Consensus Module does not report
\* the leader role returns nil and issues no request; on a node that reports
\* the leader role it issues exactly one request for the given address and
\* returns that request's outcome, which is an error that leaves the peer set
\* unchanged when the node no longer leads the newest term.
C11_Returns ==
    /\ OneRequestEach
    /\ \A k \in DOMAIN member.rets :
          LET r == member.rets[k]
          IN IF r.isLeader
             THEN /\ r.req # 0
                  /\ member.reqs[r.req].node = r.node
                  /\ member.reqs[r.req].addr = r.addr
                  /\ r.err = member.reqs[r.req].err
                  /\ ~r.led => r.err # "nil"
             ELSE r.req = 0 /\ r.err = "nil" /\ ~r.led

\* The peer set changes only by a request that returned nil to the leader of
\* the newest term, and then by the removal of the given address.
C11_Frame ==
    member.peers' # member.peers =>
        /\ Len(member.rets') = Len(member.rets) + 1
        /\ LET r == member.rets'[Len(member.rets')]
           IN /\ r.isLeader /\ r.led /\ r.err = "nil"
              /\ member.peers' = member.peers \ {r.addr}

C12_SingleNodeBootstrap ==
    /\ "raft" \in boot.open => EnableSingleNode
    /\ boot.pc = "returned" => boot.err \in {"nil"} \cup EnvErrors
    /\ boot.pc = "wait" => ENABLED newRaftLeaderKnown \/ boot.leader
    /\ (boot.pc = "returned" /\ boot.err = "nil") => boot.leader
    /\ up[Local] => IsLeader(Local) /\ Leader(Local) = Local
    /\ \A i \in DOMAIN calls :
          /\ calls[i].pc = "apply" => ENABLED CommandApply(i)
          /\ (Returned(i) /\ Received(i) = << >>) =>
                (EntryOf(i) > applied[Local] /\ ENABLED Apply(Local))
          /\ Received(i) # << >> =>
                /\ Received(i)[1].err = "nil"
                /\ Received(i)[1].idx = EntryOf(i)
                /\ applied[Local] = EntryOf(i) => Read(Local) = log[EntryOf(i)].arg

\* C12, witness: the node came up by single-node bootstrap after a poll of
\* the wait loop, and a Set on it has its nil Result and is what Read has.
C12_Witness ==
    /\ boot.err = "nil" /\ boot.polls > 0 /\ up[Local]
    /\ \E i \in DOMAIN calls :
          /\ Received(i) # << >> /\ Received(i)[1].err = "nil"
          /\ applied[Local] = EntryOf(i) /\ Read(Local) = i

\* C13 (as claimed): NewDB called with an empty peers list fails only by its
\* environment; otherwise it returns a node without error.
C13_EmptyPeers ==
    (boot.peers = << >> /\ boot.pc = "returned") =>
        boot.err \in {"nil"} \cup EnvErrors

\* C20: the leader wait loop of newRaft terminates: every turn returns or
\* sleeps once more, at most MaxPolls times; a turn that sees a leader returns
\* the instance at once; with no leader seen the minute ends in the timeout
\* error; NewDB returns a node only after a leader was seen, and with the
\* follower server's accept loop started.
C20_Loop ==
    /\ boot.polls <= MaxPolls
    /\ boot.pc = "wait" => ENABLED newRaftWait \/ ENABLED newRaftLeaderKnown
    /\ (boot.pc = "returned" /\ boot.err = "timeout") =>
          (~boot.leader /\ boot.polls = MaxPolls)
    /\ (boot.pc = "returned" /\ boot.err = "nil") =>
          (boot.leader /\ {"raft", "serve"} \subseteq boot.open)
    /\ boot.pc = "serve" => boot.leader

C20_Turn ==
    (boot.pc = "wait" /\ boot' # boot) =>
        \/ boot.leader /\ boot'.pc = "serve"
        \/ ~boot.leader /\ boot' = [boot EXCEPT !.leader = TRUE]
        \/ ~boot.leader /\ boot.polls < MaxPolls
              /\ boot' = [boot EXCEPT !.polls = @ + 1]
        \/ ~boot.leader /\ boot.polls = MaxPolls
              /\ boot'.pc = "returned" /\ boot'.err = "timeout"

C20_BoundedWait == []C20_Loop /\ [][C20_Turn]_vars

\* C20, witness: NewDB returned a node whose wait loop slept before it saw
\* the leader.
C20_Witness ==
    /\ boot.pc = "returned" /\ boot.err = "nil"
    /\ boot.polls > 0 /\ boot.leader /\ "serve" \in boot.open
    /\ Len(boot.peers) > 1

\* The callback of call i has been resolved, by apply or by a cancel.
Resolved(i) == calls[i].reqNo > 0 /\ calls[i].sent # << >>

\* C14: cancel on a callback that is already resolved changes nothing: no
\* Result is sent, the one delivered stays, the pending table stays; for every
\* resolved callback of a running process, and for the cancel dispatchToLeader
\* runs after a write failure when the apply came first.
C14_Identity ==
    \A i \in DOMAIN calls :
        (Alive(i) /\ Resolved(i)) =>
            cancel(calls[i].node, i, [pending |-> pending, calls |-> calls])
                = [pending |-> pending, calls |-> calls]

C14_CancelStep ==
    \A i \in DOMAIN calls :
        (calls[i].pc = "cancel" /\ Resolved(i) /\ calls'[i].pc # "cancel") =>
            /\ calls'[i].sent = calls[i].sent
            /\ pending' = pending
            /\ \A j \in DOMAIN calls \ {i} : calls'[j] = calls[j]

C14_IdempotentCancel == []C14_Identity /\ [][C14_CancelStep]_vars

\* C14, witness: the write of a call failed, the apply of an entry resolved
\* its callback, and then the cancel ran: the channel holds the one Result of
\* the apply.
C14_Witness ==
    \E i \in DOMAIN calls :
        /\ Alive(i) /\ DispatchFailed(i) /\ calls[i].ret[1].err = "write"
        /\ Len(calls[i].sent) = 1 /\ calls[i].sent[1].err # "cancelled"
        /\ calls[i].reqNo \notin DOMAIN pending[calls[i].node]

\* C15: a connection dialed with a code waits only on the accept queue of the
\* layer of that code and is accepted only through that layer: the follower
\* server accepts connections dialed with dialCodeFlot, the consensus
\* transport those dialed with dialCodeRaft; a connection with an
\* unrecognized first byte is closed, is on no queue and is never accepted,
\* and the step that closes it leaves the queues and the accepted connections
\* as they were; a queued connection can always be accepted.
C15_Routed ==
    /\ \A code \in Codes : \A k \in DOMAIN mux.queue[code] :
          mux.queue[code][k].code = code
    /\ \A k \in DOMAIN mux.accepted :
          LET a == mux.accepted[k]
          IN /\ a.conn.code = a.layer
             /\ a.by = "flot" => a.conn.code = dialCodeFlot /\ a.conn.from = "flot"
             /\ a.by = "raft" => a.conn.code = dialCodeRaft /\ a.conn.from = "raft"
             /\ a.conn.id \notin mux.closed
    /\ mux.queue[rpcLayer] # << >> => ENABLED serveFollowers
    /\ mux.queue[raftLayer] # << >> => ENABLED transportAccept

C15_Close ==
    mux.closed' # mux.closed =>
        /\ mux.queue' = mux.queue
        /\ mux.accepted' = mux.accepted
        /\ Head(mux.dials).code \notin Codes
        /\ mux.closed' = mux.closed \cup {Head(mux.dials).id}

C15_Isolation == []C15_Routed /\ [][C15_Close]_vars

\* C15, witness: a stray connection was closed between a connection of each
\* layer, and both were accepted, each through its own layer.
C15_Witness ==
    /\ mux.closed # {}
    /\ \E k, l \in DOMAIN mux.accepted :
          /\ mux.accepted[k].by = "flot" /\ mux.accepted[l].by = "raft"
          /\ \E id \in mux.closed :
                mux.accepted[k].conn.id < id /\ id < mux.accepted[l].conn.id

\* C16 (as claimed): a Command on a node whose Consensus Module reports no
\* leader returns an error; the node does not crash.
C16_NoCrashWithoutLeader ==
    \A n \in Servers : ~panicked[n]

\* C17 (as claimed): after a write failure was returned on a node, the write
\* of a later Command of that node does not fail again while the leader the
\* cached connection was made to is up, leads, and is the leader the node
\* knows.
C17_RetryStep ==
    \A i \in DOMAIN calls :
        LET n == calls[i].node
            to == leaderConn[n].to
        IN (calls[i].retry /\ calls[i].pc = "fwd" /\ calls'[i].pc = "cancel") =>
              ~(to # NoLeader /\ up[to] /\ realLeader = to /\ Leader(n) = to)

C17_RetryRecovers == [][C17_RetryStep]_vars

\* The calls of node n inside dispatchToLeader, past the lock.
Inside(n) ==
    {i \in DOMAIN calls : /\ calls[i].node = n /\ Alive(i)
                          /\ calls[i].pc \in {"fwd", "cancel"}}

C19_CachedValid ==
    \A n \in Servers :
        (up[n] /\ leaderLock[n] = 0) =>
            (leaderConn[n] = NoConn \/ leaderConn[n].st # "closed")

====
